---- MODULE Spec2Model ----
(***************************************************************************)
(* Model of the two ENC facades of simcharts:                              *)
(*   - seacharts.ENC  (src/seacharts/seacharts.py): constructor            *)
(*     validation, bounding box, case-insensitive layer lookup;            *)
(*   - simcharts.enc.ENC (src/simcharts/enc/enc.py): the start_sim         *)
(*     polling loop, updateLocalTraffic and the static-obstacle service    *)
(*     callback.                                                           *)
(***************************************************************************)
EXTENDS Integers, Sequences, FiniteSets, TLC

VARIABLES
    \* ---- seacharts.ENC ----
    arg_origin,      \* the origin argument of ENC.__init__
    arg_window_size, \* the window_size argument of ENC.__init__
    c_pc,            \* position inside ENC.__init__
    inst_dict,       \* names of the attributes assigned on the object so far
    origin,          \* self.origin
    window_size,     \* self.window_size
    parser,          \* self.parser: the Parser and what was done with it
    layers,          \* self.layers
    raised,          \* the message of the TypeError raised, or NoError
    lookup,          \* the last layer lookup and its outcome
    \* ---- simcharts.enc.ENC ----
    pc,              \* position inside start_sim
    executor,        \* self.executor
    sim_callback_time, \* self.sim_callback_time
    local_traffic,   \* self.local_traffic
    t_i,             \* local t_i of start_sim
    t_i_plus_1,      \* local t_i_plus_1 of start_sim
    delta_t,         \* local delta_t of start_sim
    new_traffic,     \* what get_local_traffic returned in this polling cycle
    held_before,     \* self.local_traffic when this polling cycle's poll began
    last_nonempty,   \* the last non-empty mapping get_local_traffic returned
    loop_polls,      \* polls made inside the while loop: 0, 1 or 2 (= more)
    calls,           \* calls made so far in the current loop iteration
    vessels_shown,   \* the argument of the last refresh_vessels call
    land,            \* self.land.geometry.__geo_interface__['coordinates']
    cb               \* per service invocation: the callback's locals

chart_vars == <<arg_origin, arg_window_size, c_pc, inst_dict, origin,
                window_size, parser, layers, raised, lookup>>
sim_vars == <<pc, executor, sim_callback_time, local_traffic, t_i, t_i_plus_1,
              delta_t, new_traffic, held_before, last_nonempty, loop_polls,
              calls, vessels_shown>>
vars == <<arg_origin, arg_window_size, c_pc, inst_dict, origin, window_size,
          parser, layers, raised, lookup,
          pc, executor, sim_callback_time, local_traffic, t_i, t_i_plus_1,
          delta_t, new_traffic, held_before, last_nonempty, loop_polls,
          calls, vessels_shown, land, cb>>

(***************************************************************************)
(* Bounds                                                                  *)
(***************************************************************************)
MaxCoord == 1
MaxVessel == 2
MaxClock == 1
MaxPolys == 2
MaxPts == 2

(***************************************************************************)
(* Python values                                                           *)
(***************************************************************************)
PyTuple(s) == [kind |-> "tuple", elems |-> s]
PyList(s) == [kind |-> "list", elems |-> s]
PyNone == [kind |-> "NoneType", elems |-> <<>>]
Unassigned == [kind |-> "unassigned", elems |-> <<>>]

NoError == "none"
OriginError == "ENC: Origin should be a tuple of size two"
WindowSizeError == "ENC: Window size should be a tuple of size two"

Coords == 0..MaxCoord
ValidPairs == {PyTuple(<<a, b>>) : a \in Coords, b \in Coords}
InvalidArgs == {PyTuple(<<0>>), PyTuple(<<0, 1, 1>>), PyList(<<0, 1>>), PyNone}
ArgValues == ValidPairs \cup InvalidArgs

\* isinstance(x, tuple) and len(x) == 2
IsTupleOfTwo(x) == x.kind = "tuple" /\ Len(x.elems) = 2

(***************************************************************************)
(* Strings as sequences of characters, and str.capitalize                  *)
(***************************************************************************)
LowerLetters == <<"a", "c", "d", "e", "f", "g", "i", "l", "n", "o", "p", "r",
                  "s", "t", "u", "w", "y", "z">>
UpperLetters == <<"A", "C", "D", "E", "F", "G", "I", "L", "N", "O", "P", "R",
                  "S", "T", "U", "W", "Y", "Z">>

Upper(c) ==
    IF \E i \in DOMAIN LowerLetters : LowerLetters[i] = c
    THEN UpperLetters[CHOOSE i \in DOMAIN LowerLetters : LowerLetters[i] = c]
    ELSE c

Lower(c) ==
    IF \E i \in DOMAIN UpperLetters : UpperLetters[i] = c
    THEN LowerLetters[CHOOSE i \in DOMAIN UpperLetters : UpperLetters[i] = c]
    ELSE c

LowerStr(s) == [i \in 1..Len(s) |-> Lower(s[i])]

\* A bug variant: only the first character is changed (s[0].upper() + s[1:]).
capitalize_first_only(s) ==
    IF s = <<>> THEN <<>>
    ELSE [i \in 1..Len(s) |-> IF i = 1 THEN Upper(s[i]) ELSE s[i]]

\* str.capitalize(): first character upper-cased, the rest lower-cased.
capitalize(s) ==
    IF s = <<>> THEN <<>>
    ELSE [i \in 1..Len(s) |-> IF i = 1 THEN Upper(s[i]) ELSE Lower(s[i])]

\* x.__name__ for x in _layers = (Ocean, Surface, Details)
OceanName == <<"O", "c", "e", "a", "n">>
SurfaceName == <<"S", "u", "r", "f", "a", "c", "e">>
DetailsName == <<"D", "e", "t", "a", "i", "l", "s">>
LayerClasses == <<OceanName, SurfaceName, DetailsName>>
LayerKeys == {LayerClasses[i] : i \in DOMAIN LayerClasses}

\* Every upper/lower-case spelling of a word.
Spellings(w) ==
    {[i \in 1..Len(w) |-> IF i \in U THEN Upper(w[i]) ELSE Lower(w[i])] :
        U \in SUBSET (1..Len(w))}

\* Names of the attributes __init__ assigns on the instance.
InstanceAttrs == {<<"o", "r", "i", "g", "i", "n">>,
                  <<"w", "i", "n", "d", "o", "w", "_", "s", "i", "z", "e">>,
                  <<"p", "a", "r", "s", "e", "r">>,
                  <<"l", "a", "y", "e", "r", "s">>}
\* Names defined in the class body.
ClassAttrs == {<<"_", "l", "a", "y", "e", "r", "s">>,
               <<"_", "f", "e", "a", "t", "u", "r", "e", "s">>,
               <<"d", "e", "f", "a", "u", "l", "t", "_", "o", "r", "i", "g", "i", "n">>,
               <<"s", "u", "p", "p", "o", "r", "t", "e", "d", "_", "f", "e", "a", "t", "u", "r", "e", "s">>}
OtherNames == {<<>>,
               <<"l", "a", "n", "d">>,
               <<"o", "c", "e", "a", "n", "s">>,
               <<"O", "c", "e", "a">>,
               <<"_", "o", "c", "e", "a", "n">>,
               <<"s", "e", "a", "f", "l", "o", "o", "r">>}
LookupNames ==
    Spellings(OceanName) \cup Spellings(SurfaceName) \cup Spellings(DetailsName)
    \cup InstanceAttrs \cup ClassAttrs \cup OtherNames

NoLookup == [mode |-> "none", name |-> <<>>, outcome |-> "none", value |-> <<>>]

(***************************************************************************)
(* seacharts.ENC.__init__                                                  *)
(***************************************************************************)
NoParser == [bounding_box |-> <<>>, updated |-> FALSE]
NoLayers == <<>>

\* The object when __init__ is entered: nothing assigned yet.
NewObject ==
    /\ c_pc = "L35"
    /\ inst_dict = {}
    /\ origin = Unassigned
    /\ window_size = Unassigned
    /\ parser = NoParser
    /\ layers = NoLayers
    /\ raised = NoError
    /\ lookup = NoLookup

\* A bug variant: the origin is stored before it is validated.
CheckOriginAssignFirst ==
    /\ c_pc = "L35"
    /\ origin' = arg_origin
    /\ inst_dict' = inst_dict \cup {"origin"}
    /\ IF IsTupleOfTwo(arg_origin)
       THEN c_pc' = "L41" /\ raised' = raised
       ELSE c_pc' = "raised" /\ raised' = OriginError
    /\ UNCHANGED <<arg_origin, arg_window_size, window_size, parser, layers, lookup>>

\* Lines 35-40: the origin check.
CheckOrigin ==
    /\ c_pc = "L35"
    /\ IF IsTupleOfTwo(arg_origin)
       THEN /\ origin' = arg_origin
            /\ inst_dict' = inst_dict \cup {"origin"}
            /\ c_pc' = "L41"
            /\ raised' = raised
       ELSE /\ raised' = OriginError
            /\ c_pc' = "raised"
            /\ UNCHANGED <<origin, inst_dict>>
    /\ UNCHANGED <<arg_origin, arg_window_size, window_size, parser, layers, lookup>>

\* A bug variant: an invalid window size is not rejected.
CheckWindowSizeNoRaise ==
    /\ c_pc = "L41"
    /\ window_size' = arg_window_size
    /\ inst_dict' = inst_dict \cup {"window_size"}
    /\ c_pc' = "L47"
    /\ UNCHANGED <<arg_origin, arg_window_size, origin, parser, layers, raised, lookup>>

\* Lines 41-46: the window size check.
CheckWindowSize ==
    /\ c_pc = "L41"
    /\ IF IsTupleOfTwo(arg_window_size)
       THEN /\ window_size' = arg_window_size
            /\ inst_dict' = inst_dict \cup {"window_size"}
            /\ c_pc' = "L47"
            /\ raised' = raised
       ELSE /\ raised' = WindowSizeError
            /\ c_pc' = "raised"
            /\ UNCHANGED <<window_size, inst_dict>>
    /\ UNCHANGED <<arg_origin, arg_window_size, origin, parser, layers, lookup>>

\* A bug variant: the top-right corner is the window size itself.
BoundingBoxNoOffset(o, w) == o.elems \o w.elems

\* Lines 47-48: tr_corner = (i + j for i, j in zip(origin, window_size));
\* bounding_box = *origin, *tr_corner
BoundingBox(o, w) ==
    o.elems \o [k \in 1..(IF Len(o.elems) < Len(w.elems) THEN Len(o.elems)
                                                         ELSE Len(w.elems))
                  |-> o.elems[k] + w.elems[k]]

\* Lines 47-49: the Parser is constructed on the bounding box.
MakeParser ==
    /\ c_pc = "L47"
    /\ parser' = [bounding_box |-> BoundingBox(origin, window_size), updated |-> FALSE]
    /\ inst_dict' = inst_dict \cup {"parser"}
    /\ c_pc' = "L50"
    /\ UNCHANGED <<arg_origin, arg_window_size, origin, window_size, layers, raised, lookup>>

\* Line 50: self.parser.update_charts_data(self._features, new_data)
UpdateChartsData ==
    /\ c_pc = "L50"
    /\ parser' = [parser EXCEPT !.updated = TRUE]
    /\ c_pc' = "L51"
    /\ UNCHANGED <<arg_origin, arg_window_size, inst_dict, origin, window_size,
                   layers, raised, lookup>>

\* Line 51: self.layers = {x.__name__: x(self.parser.load) for x in self._layers}
MakeLayers ==
    /\ c_pc = "L51"
    /\ layers' = [k \in LayerKeys |-> [cls |-> k, load |-> parser.bounding_box]]
    /\ inst_dict' = inst_dict \cup {"layers"}
    /\ c_pc' = "constructed"
    /\ UNCHANGED <<arg_origin, arg_window_size, origin, window_size, parser,
                   raised, lookup>>

\* Lines 53-54: self.layers[item.capitalize()]
GetItemResult(mode, item) ==
    IF capitalize(item) \in DOMAIN layers
    THEN [mode |-> mode, name |-> item, outcome |-> "layer",
          value |-> layers[capitalize(item)].cls]
    ELSE [mode |-> mode, name |-> item, outcome |-> "KeyError", value |-> <<>>]

\* enc[item]
GetItem ==
    /\ c_pc = "constructed"
    /\ \E item \in LookupNames : lookup' = GetItemResult("subscript", item)
    /\ UNCHANGED <<arg_origin, arg_window_size, c_pc, inst_dict, origin,
                   window_size, parser, layers, raised>>

\* enc.item: ordinary attribute lookup first; lines 56-57 (__getattr__) run
\* only when that finds nothing.
GetAttr ==
    /\ c_pc = "constructed"
    /\ \E item \in LookupNames :
         lookup' = IF item \in InstanceAttrs \cup ClassAttrs
                   THEN [mode |-> "attribute", name |-> item,
                         outcome |-> "attribute", value |-> item]
                   ELSE GetItemResult("attribute", item)
    /\ UNCHANGED <<arg_origin, arg_window_size, c_pc, inst_dict, origin,
                   window_size, parser, layers, raised>>

(***************************************************************************)
(* simcharts.enc.ENC: local traffic and the start_sim loop                 *)
(***************************************************************************)
VesselIds == 1..MaxVessel
VesselStates == {"p", "q"}
\* A traffic mapping: vessel identifier -> vessel state, for some identifiers.
Mappings == UNION {[S -> VesselStates] : S \in SUBSET VesselIds}
EmptyMap == <<>>

\* datetime.datetime.now().timestamp(): a wall-clock reading.
Times == 0..MaxClock
\* Line 112: t_i_plus_1 = now + 5000
FirstPollOffset == 5000
\* self._cfg.settings['enc']['sim_callback_time']
CallbackTimes == (1..MaxClock) \cup {FirstPollOffset + MaxClock + 1}

\* A bug variant: the new mapping is merged into the held one.
MergeLocalTraffic(held, nt) ==
    [k \in (DOMAIN held) \cup (DOMAIN nt) |->
        IF k \in DOMAIN nt THEN nt[k] ELSE held[k]]

\* Lines 93-95: the mapping held after updateLocalTraffic, given the mapping
\* held before and what get_local_traffic returned.
UpdateLocalTraffic(held, nt) == IF nt # EmptyMap THEN nt ELSE held

InitSim ==
    /\ pc = "L107"
    /\ executor = "None"
    /\ sim_callback_time \in CallbackTimes
    /\ local_traffic = EmptyMap
    /\ t_i = 0
    /\ t_i_plus_1 = 0
    /\ delta_t = 0
    /\ new_traffic = EmptyMap
    /\ held_before = EmptyMap
    /\ last_nonempty = EmptyMap
    /\ loop_polls = 0
    /\ calls = <<>>
    /\ vessels_shown = EmptyMap

\* Lines 107-116: everything start_sim does before the loop.
StartSim ==
    /\ pc = "L107"
    /\ executor' = "executor"
    /\ t_i' \in Times
    /\ \E now \in Times : t_i_plus_1' = now + FirstPollOffset
    /\ \E nt \in Mappings :
         /\ new_traffic' = nt
         /\ local_traffic' = UpdateLocalTraffic(local_traffic, nt)
         /\ last_nonempty' = IF nt # EmptyMap THEN nt ELSE last_nonempty
    /\ held_before' = local_traffic
    /\ vessels_shown' = local_traffic'
    /\ calls' = <<"updateLocalTraffic", "refresh_vessels", "update_static_plot",
                  "update_vessels_plot">>
    /\ pc' = "L118"
    /\ UNCHANGED <<sim_callback_time, delta_t, loop_polls>>

\* Line 118: rclpy.spin_once(self, ...); a new iteration begins.
SpinOnce ==
    /\ pc = "L118"
    /\ calls' = <<"spin_once">>
    /\ pc' = "L119"
    /\ UNCHANGED <<executor, sim_callback_time, local_traffic, t_i, t_i_plus_1,
                   delta_t, new_traffic, held_before, last_nonempty, loop_polls,
                   vessels_shown>>

\* Line 119: self._display.update_vessels_plot()
UpdateVesselsPlot ==
    /\ pc = "L119"
    /\ calls' = Append(calls, "update_vessels_plot")
    /\ pc' = "L120"
    /\ UNCHANGED <<executor, sim_callback_time, local_traffic, t_i, t_i_plus_1,
                   delta_t, new_traffic, held_before, last_nonempty, loop_polls,
                   vessels_shown>>

\* A bug variant: the threshold itself does not trigger a poll.
PollDueStrict(d, threshold) == d > threshold

\* Line 121: delta_t >= self.sim_callback_time
PollDue(d, threshold) == d >= threshold

\* Lines 120-121: delta_t = t_i_plus_1 - t_i and the test on it.
CheckElapsed ==
    /\ pc = "L120"
    /\ delta_t' = t_i_plus_1 - t_i
    /\ pc' = IF PollDue(delta_t', sim_callback_time) THEN "L123" ELSE "L128"
    /\ UNCHANGED <<executor, sim_callback_time, local_traffic, t_i, t_i_plus_1,
                   new_traffic, held_before, last_nonempty, loop_polls, calls,
                   vessels_shown>>

\* Line 123: self.updateLocalTraffic() (lines 91-95)
PollTraffic ==
    /\ pc = "L123"
    /\ \E nt \in Mappings :
         /\ new_traffic' = nt
         /\ local_traffic' = UpdateLocalTraffic(local_traffic, nt)
         /\ last_nonempty' = IF nt # EmptyMap THEN nt ELSE last_nonempty
    /\ held_before' = local_traffic
    /\ loop_polls' = IF loop_polls < 2 THEN loop_polls + 1 ELSE loop_polls
    /\ calls' = Append(calls, "updateLocalTraffic")
    /\ pc' = "L124"
    /\ UNCHANGED <<executor, sim_callback_time, t_i, t_i_plus_1, delta_t,
                   vessels_shown>>

\* A bug variant: the displayed mapping is kept (line 126 missing).
RefreshVesselsKeep ==
    /\ pc = "L124"
    /\ IF Cardinality(DOMAIN local_traffic) > 0
       THEN /\ vessels_shown' = local_traffic
            /\ calls' = Append(calls, "refresh_vessels")
       ELSE UNCHANGED <<vessels_shown, calls>>
    /\ pc' = "L127"
    /\ UNCHANGED <<executor, sim_callback_time, local_traffic, t_i, t_i_plus_1,
                   delta_t, new_traffic, held_before, last_nonempty, loop_polls>>

\* Lines 124-126: a non-empty mapping is displayed, then dropped.
RefreshVessels ==
    /\ pc = "L124"
    /\ IF Cardinality(DOMAIN local_traffic) > 0
       THEN /\ vessels_shown' = local_traffic
            /\ calls' = Append(calls, "refresh_vessels")
            /\ local_traffic' = EmptyMap
       ELSE UNCHANGED <<vessels_shown, calls, local_traffic>>
    /\ pc' = "L127"
    /\ UNCHANGED <<executor, sim_callback_time, t_i, t_i_plus_1, delta_t,
                   new_traffic, held_before, last_nonempty, loop_polls>>

\* Line 127: t_i = datetime.datetime.now().timestamp()
ResetTimer ==
    /\ pc = "L127"
    /\ t_i' \in Times
    /\ calls' = Append(calls, "t_i")
    /\ new_traffic' = EmptyMap
    /\ held_before' = EmptyMap
    /\ pc' = "L128"
    /\ UNCHANGED <<executor, sim_callback_time, local_traffic, t_i_plus_1,
                   delta_t, last_nonempty, loop_polls, vessels_shown>>

\* A bug variant: the loop may end (as a duration-bounded loop would).
SampleClockOrReturn ==
    /\ pc = "L128"
    /\ t_i_plus_1' \in Times
    /\ pc' \in {"L118", "returned"}
    /\ UNCHANGED <<executor, sim_callback_time, local_traffic, t_i, delta_t,
                   new_traffic, held_before, last_nonempty, loop_polls, calls,
                   vessels_shown>>

\* Line 128: t_i_plus_1 = datetime.datetime.now().timestamp(); `while True`
\* goes back to line 118.
SampleClock ==
    /\ pc = "L128"
    /\ t_i_plus_1' \in Times
    /\ pc' = "L118"
    /\ UNCHANGED <<executor, sim_callback_time, local_traffic, t_i, delta_t,
                   new_traffic, held_before, last_nonempty, loop_polls, calls,
                   vessels_shown>>

(***************************************************************************)
(* simcharts.enc.ENC: the static-obstacle service callback                 *)
(***************************************************************************)
\* Coordinates of outer-ring points (2D and 3D) and of inner-ring points.
OuterPoints == {<<0, 1>>, <<2, 3, 9>>}
HolePointA == <<5, 6>>
HolePointB == <<7, 8, 9>>
SeqsOf(S, lo, hi) == UNION {[1..n -> S] : n \in lo..hi}
OuterRings == SeqsOf(OuterPoints, 1, MaxPts)
\* The inner rings of a polygon: none, one or two.
HoleLists == {<<>>, <<(<<HolePointA, HolePointB>>)>>,
              <<(<<HolePointB>>), (<<HolePointA, HolePointA>>)>>}
\* A polygon of the geo interface: its outer ring, then its inner rings.
Polygons == {<<r>> \o h : r \in OuterRings, h \in HoleLists}
\* The coordinates of a MultiPolygon: a sequence of polygons.
Lands == SeqsOf(Polygons, 0, MaxPolys)
LandSamples ==
    {<<>>,
     <<(<<(<<(<<0, 1>>), (<<2, 3, 9>>)>>), (<<HolePointA, HolePointB>>)>>),
       (<<(<<(<<2, 3, 9>>)>>)>>)>>}

Callers == {1, 2}
IdleCallback == [pc |-> "idle", raw_obstacles |-> <<>>, obstacles |-> <<>>,
                 response |-> [timestamp |-> "unset", static_obstacles |-> <<>>]]

\* A bug variant: the last ring of the polygon is taken.
LastRing(_pol) == _pol[Len(_pol)]

\* Line 357: pol = _pol[0]
FirstRing(_pol) == _pol[1]

\* Lines 359-364: one Point(x = p[0], y = p[1]) per coordinate of the ring.
RingPoints(pol) == [j \in 1..Len(pol) |-> [x |-> pol[j][1], y |-> pol[j][2]]]

\* Lines 357-365: the Polygon message of one land polygon.
PolygonMsg(_pol) == [polygon |-> RingPoints(FirstRing(_pol))]

\* Lines 353-355: the land coordinates are read, obstacles = [].
CbStart(i) ==
    /\ cb[i].pc = "idle"
    /\ cb' = [cb EXCEPT ![i] = [pc |-> "L356", raw_obstacles |-> land,
                                obstacles |-> <<>>, response |-> @.response]]
    /\ UNCHANGED land

\* Lines 356-366: one iteration of the loop over raw_obstacles.
CbPolygon(i) ==
    /\ cb[i].pc = "L356"
    /\ Len(cb[i].obstacles) < Len(cb[i].raw_obstacles)
    /\ cb' = [cb EXCEPT ![i].obstacles =
                 Append(@, PolygonMsg(cb[i].raw_obstacles[Len(@) + 1]))]
    /\ UNCHANGED land

\* Lines 367-371: the response is filled in and returned.
CbRespond(i) ==
    /\ cb[i].pc = "L356"
    /\ Len(cb[i].obstacles) = Len(cb[i].raw_obstacles)
    /\ cb' = [cb EXCEPT ![i].pc = "done",
                        ![i].response = [timestamp |-> "getTimeStamp(clock)",
                                         static_obstacles |-> cb[i].obstacles]]
    /\ UNCHANGED land

\* A bug variant: the handler resets the node's traffic when it answers.
ServiceStepClearsTraffic(i) ==
    /\ CbStart(i) \/ CbPolygon(i) \/ CbRespond(i)
    /\ local_traffic' = IF cb'[i].pc = "done" THEN EmptyMap ELSE local_traffic
    /\ UNCHANGED <<pc, executor, sim_callback_time, t_i, t_i_plus_1,
                   delta_t, new_traffic, held_before, last_nonempty, loop_polls,
                   calls, vessels_shown>>

\* Lines 347-371: a step of one invocation of _get_static_obstacles_callback;
\* it assigns locals and the response only.
ServiceStep(i) ==
    /\ CbStart(i) \/ CbPolygon(i) \/ CbRespond(i)
    /\ UNCHANGED sim_vars

(***************************************************************************)
(* Specifications                                                          *)
(***************************************************************************)
\* The chart facade is not part of the simulation node.
ChartIdle ==
    /\ arg_origin = PyNone
    /\ arg_window_size = PyNone
    /\ c_pc = "none"
    /\ inst_dict = {}
    /\ origin = Unassigned
    /\ window_size = Unassigned
    /\ parser = NoParser
    /\ layers = NoLayers
    /\ raised = NoError
    /\ lookup = NoLookup

\* The simulation loop is not running.
SimIdle ==
    /\ pc = "L107"
    /\ executor = "None"
    /\ sim_callback_time = 1
    /\ local_traffic = EmptyMap
    /\ t_i = 0
    /\ t_i_plus_1 = 0
    /\ delta_t = 0
    /\ new_traffic = EmptyMap
    /\ held_before = EmptyMap
    /\ last_nonempty = EmptyMap
    /\ loop_polls = 0
    /\ calls = <<>>
    /\ vessels_shown = EmptyMap

\* start_sim on its own thread.
Init ==
    /\ ChartIdle
    /\ InitSim
    /\ land = <<>>
    /\ cb = [i \in Callers |-> IdleCallback]

Next ==
    \/ StartSim /\ UNCHANGED <<chart_vars, land, cb>>
    \/ SpinOnce /\ UNCHANGED <<chart_vars, land, cb>>
    \/ UpdateVesselsPlot /\ UNCHANGED <<chart_vars, land, cb>>
    \/ CheckElapsed /\ UNCHANGED <<chart_vars, land, cb>>
    \/ PollTraffic /\ UNCHANGED <<chart_vars, land, cb>>
    \/ RefreshVessels /\ UNCHANGED <<chart_vars, land, cb>>
    \/ ResetTimer /\ UNCHANGED <<chart_vars, land, cb>>
    \/ SampleClock /\ UNCHANGED <<chart_vars, land, cb>>

Spec == Init /\ [][Next]_vars

\* The simulation node: start_sim with service invocations interleaved.
InitService ==
    /\ ChartIdle
    /\ InitSim
    /\ land \in LandSamples
    /\ cb = [i \in Callers |-> IdleCallback]

NextService ==
    \/ Next
    \/ \E i \in Callers : ServiceStep(i) /\ UNCHANGED chart_vars

SpecService == InitService /\ [][NextService]_vars

\* The service handler alone, over every land geometry within the bounds.
InitObstacles ==
    /\ ChartIdle
    /\ SimIdle
    /\ land \in Lands
    /\ cb = [i \in Callers |-> IdleCallback]

NextObstacles ==
    \/ CbStart(1) /\ UNCHANGED <<chart_vars, sim_vars>>
    \/ CbPolygon(1) /\ UNCHANGED <<chart_vars, sim_vars>>
    \/ CbRespond(1) /\ UNCHANGED <<chart_vars, sim_vars>>

SpecObstacles == InitObstacles /\ [][NextObstacles]_vars

\* Construction of the chart facade, over every argument within the bounds.
InitChartSpec ==
    /\ arg_origin \in ArgValues
    /\ arg_window_size \in ArgValues
    /\ NewObject
    /\ SimIdle
    /\ land = <<>>
    /\ cb = [i \in Callers |-> IdleCallback]

NextChart ==
    \/ CheckOrigin /\ UNCHANGED <<sim_vars, land, cb>>
    \/ CheckWindowSize /\ UNCHANGED <<sim_vars, land, cb>>
    \/ MakeParser /\ UNCHANGED <<sim_vars, land, cb>>
    \/ UpdateChartsData /\ UNCHANGED <<sim_vars, land, cb>>
    \/ MakeLayers /\ UNCHANGED <<sim_vars, land, cb>>

SpecChart == InitChartSpec /\ [][NextChart]_vars

\* ENC() with the default origin and window size (lines 24-25), then lookups.
InitLookup ==
    /\ NewObject
    /\ arg_origin = PyTuple(<<38100, 6948700>>)
    /\ arg_window_size = PyTuple(<<20000, 16000>>)
    /\ SimIdle
    /\ land = <<>>
    /\ cb = [i \in Callers |-> IdleCallback]

NextLookup ==
    \/ NextChart
    \/ GetItem /\ UNCHANGED <<sim_vars, land, cb>>
    \/ GetAttr /\ UNCHANGED <<sim_vars, land, cb>>

SpecLookup == InitLookup /\ [][NextLookup]_vars

(***************************************************************************)
(* Properties                                                              *)
(***************************************************************************)
Refreshed == \E k \in DOMAIN calls : calls[k] = "refresh_vessels"
IterationStart == <<"spin_once", "update_vessels_plot">>

C8_IterationOrder ==
    /\ pc = "L119" => calls = <<"spin_once">>
    /\ pc = "L120" => calls = IterationStart
    /\ pc = "L123" => /\ calls = IterationStart
                      /\ delta_t = t_i_plus_1 - t_i
                      /\ delta_t >= sim_callback_time
    /\ pc = "L124" => /\ calls = Append(IterationStart, "updateLocalTraffic")
                      /\ delta_t >= sim_callback_time
    /\ pc = "L127" =>
         /\ calls \in {IterationStart \o <<"updateLocalTraffic">>,
                       IterationStart \o <<"updateLocalTraffic", "refresh_vessels">>}
         /\ delta_t >= sim_callback_time
    /\ pc = "L128" =>
         IF delta_t >= sim_callback_time
         THEN calls \in {IterationStart \o <<"updateLocalTraffic", "t_i">>,
                         IterationStart \o <<"updateLocalTraffic", "refresh_vessels", "t_i">>}
         ELSE /\ calls = IterationStart
              /\ delta_t = t_i_plus_1 - t_i

C8_Witness ==
    /\ pc = "L128"
    /\ calls = IterationStart
    /\ loop_polls >= 1
    /\ delta_t = sim_callback_time - 1

\* C9: start_sim never returns: once in the loop it stays in the loop, from
\* every reachable state another step of the loop is possible, and no state in
\* which start_sim has completed is reachable.
LoopPcs == {"L118", "L119", "L120", "L123", "L124", "L127", "L128"}
OuterRingPairs(geometry, out) ==
    /\ Len(out) = Len(geometry)
    /\ \A k \in 1..Len(geometry) :
         /\ Len(out[k].polygon) = Len(geometry[k][1])
         /\ \A j \in 1..Len(geometry[k][1]) :
              /\ out[k].polygon[j].x = geometry[k][1][j][1]
              /\ out[k].polygon[j].y = geometry[k][1][j][2]

\* C10: a step of the service callback, in any interleaving with start_sim
\* and with another invocation, writes no field of the node (local_traffic,
\* land, executor), and what it returns depends on the land geometry only.
C10_CallbackWritesNoField ==
    [][cb' # cb =>
         /\ local_traffic' = local_traffic
         /\ land' = land
         /\ executor' = executor
         /\ pc' = pc
         /\ \A i \in Callers :
              cb'[i].pc = "done" =>
                  OuterRingPairs(land, cb'[i].response.static_obstacles)]_vars

C10_Witness ==
    /\ pc = "L124"
    /\ local_traffic # EmptyMap
    /\ cb[1].pc = "L356"
    /\ Len(cb[1].obstacles) = 1
    /\ cb[2].pc = "done"
    /\ Len(land) = 2

\* C7: the handler returns one polygon per land polygon, in the same order,
\* each holding the (x, y) pairs of that polygon's outer ring in the original
\* order, and no point of an inner ring appears in the output.
C7_OuterRingsOnly ==
    cb[1].pc = "done" =>
        LET out == cb[1].response.static_obstacles IN
        /\ Len(out) = Len(land)
        /\ \A k \in 1..Len(land) :
             out[k].polygon = [j \in 1..Len(land[k][1]) |->
                                  [x |-> land[k][1][j][1], y |-> land[k][1][j][2]]]
        /\ \A k \in 1..Len(land) : \A r \in 2..Len(land[k]) :
             \A m \in 1..Len(land[k][r]) :
               \A k2 \in 1..Len(out) : \A j \in 1..Len(out[k2].polygon) :
                 ~(/\ out[k2].polygon[j].x = land[k][r][m][1]
                   /\ out[k2].polygon[j].y = land[k][r][m][2])

C7_Witness ==
    /\ cb[1].pc = "done"
    /\ Len(land) = 2
    /\ Len(land[1]) = 3
    /\ Len(land[2]) = 1
    /\ Len(land[1][1]) = 2
    /\ land[1][1][1] # land[1][1][2]
    /\ Len(cb[1].response.static_obstacles) = 2

\* C3: an origin or window_size that is not a tuple of length two raises
\* TypeError before the Parser is constructed and before update_charts_data
\* is called; when both are invalid the origin error is the one raised.
C3_RaisesBeforeParsing ==
    /\ arg_origin \notin ValidPairs =>
         /\ c_pc \in {"L35", "raised"}
         /\ c_pc = "raised" => raised = OriginError
    /\ (arg_origin \in ValidPairs /\ arg_window_size \notin ValidPairs) =>
         /\ c_pc \in {"L35", "L41", "raised"}
         /\ c_pc = "raised" => raised = WindowSizeError
    /\ (arg_origin \notin ValidPairs \/ arg_window_size \notin ValidPairs) =>
         /\ parser = NoParser
         /\ "parser" \notin inst_dict
    /\ (arg_origin \in ValidPairs /\ arg_window_size \in ValidPairs) =>
         raised = NoError

C3_Witness ==
    /\ c_pc = "raised"
    /\ arg_origin \notin ValidPairs
    /\ arg_window_size \notin ValidPairs
    /\ raised = OriginError
    /\ parser = NoParser

\* C4 (as stated): when construction fails validation none of origin,
\* window_size, parser, layers has been assigned on the object.
C4_NothingAssigned ==
    c_pc = "raised" =>
        /\ inst_dict = {}
        /\ origin = Unassigned
        /\ window_size = Unassigned
        /\ parser = NoParser
        /\ layers = NoLayers

\* C4 (amended): when construction fails validation, window_size, parser and
\* layers have not been assigned; origin has not been assigned when the origin
\* is invalid, but with a valid origin and an invalid window_size self.origin
\* already holds the given origin when the TypeError is raised.
C4_OnlyOriginAssigned ==
    c_pc = "raised" =>
        /\ window_size = Unassigned
        /\ parser = NoParser
        /\ layers = NoLayers
        /\ IF arg_origin \in ValidPairs
           THEN inst_dict = {"origin"} /\ origin = arg_origin
           ELSE inst_dict = {} /\ origin = Unassigned

C4_Witness ==
    /\ c_pc = "raised"
    /\ raised = WindowSizeError
    /\ origin \in ValidPairs
    /\ inst_dict = {"origin"}

\* C5: for a valid origin (ox, oy) and window_size (w, h) the bounding box
\* passed to the Parser is (ox, oy, ox + w, oy + h).
C5_BoundingBox ==
    c_pc \in {"L50", "L51", "constructed"} =>
        parser.bounding_box = <<arg_origin.elems[1], arg_origin.elems[2],
                                arg_origin.elems[1] + arg_window_size.elems[1],
                                arg_origin.elems[2] + arg_window_size.elems[2]>>

C5_Witness ==
    /\ c_pc = "constructed"
    /\ arg_origin = PyTuple(<<1, 0>>)
    /\ arg_window_size = PyTuple(<<1, 1>>)
    /\ parser.updated

LowerLayerKeys == {LowerStr(k) : k \in LayerKeys}

\* C6 (as stated): a layer lookup, by subscript or by attribute, returns the
\* same layer for every spelling of ocean, surface and details, and fails
\* with a lookup error for every other name.
C6_LookupByName ==
    lookup.mode # "none" =>
        IF LowerStr(lookup.name) \in LowerLayerKeys
        THEN /\ lookup.outcome = "layer"
             /\ lookup.value \in LayerKeys
             /\ LowerStr(lookup.value) = LowerStr(lookup.name)
        ELSE lookup.outcome = "KeyError"

\* C6 (amended): a layer lookup returns the same layer for every spelling of
\* ocean, surface and details; by subscript it fails with a lookup error for
\* every other name; by attribute it fails with a lookup error for every
\* other name that is not an ordinary attribute of the object or its class,
\* and for such a name the attribute is returned.
C6_LookupByNameOrAttribute ==
    lookup.mode # "none" =>
        IF LowerStr(lookup.name) \in LowerLayerKeys
        THEN /\ lookup.outcome = "layer"
             /\ lookup.value \in LayerKeys
             /\ LowerStr(lookup.value) = LowerStr(lookup.name)
        ELSE IF lookup.mode = "attribute" /\ lookup.name \in InstanceAttrs \cup ClassAttrs
             THEN lookup.outcome = "attribute" /\ lookup.value = lookup.name
             ELSE lookup.outcome = "KeyError"

C6_Witness ==
    /\ lookup.mode = "attribute"
    /\ lookup.name = <<"s", "U", "r", "F", "a", "C", "E">>
    /\ lookup.outcome = "layer"
    /\ lookup.value = SurfaceName

====
